---- MODULE Spec2Model ----
(***************************************************************************)
(* Model of nifty-orb-strategy.py: the opening-range-breakout detector,    *)
(* the single-position risk engine (Rs-based trailing stop) and the daily  *)
(* trade/loss limits, as driven by NiftyORBStrategy.run.                   *)
(*                                                                         *)
(* Number representation.  Option prices are integers in paise (1/100 Rs). *)
(* The stop loss is the exact rational the code computes, kept as an       *)
(* integer number of "units" of 1/LOT_SIZE paise: a price of p paise is    *)
(* p * LOT_SIZE units and an amount of x Rs divided by the lot size is     *)
(* x * 100 units.  round(x, 2) is rounding to the nearest multiple of      *)
(* LOT_SIZE units.  Index (spot) prices and the range are whole points.    *)
(* Times of day are minutes after midnight.                                *)
(***************************************************************************)
EXTENDS Integers, Sequences, FiniteSets, TLC

VARIABLES
    now,                  \* current_time read at the top of the run loop
    pc,                   \* position of the run loop
    orb_formed, orb_high, orb_low,
    orb_buffer,           \* self.orb_buffer
    waiting_for_breakout, \* the detector's armed flag
    position,             \* self.position (None or the position record)
    trade_count, total_pnl, trade_completed,
    max_trades, max_daily_loss,
    use_api,              \* execute_trades or api.use_sandbox
    exit_signal,          \* run's local exit_signal between monitor and exit
    obs,                  \* what the latest loop step observed and returned
    bo_log,               \* check_breakout calls (detector specification)
    faults_left,          \* faulty answers of the order API still to come
    buckets, atr_period,  \* the volatility estimator's input and period
    atr                   \* the volatility estimate

vars == <<now, pc, orb_formed, orb_high, orb_low, orb_buffer,
          waiting_for_breakout, position, trade_count, total_pnl,
          trade_completed, max_trades, max_daily_loss, use_api,
          exit_signal, obs, bo_log, faults_left, buckets, atr_period, atr>>

-----------------------------------------------------------------------------
(* CONFIG and the literals of the source *)

LOT_SIZE == 65
ORB_BUFFER_POINTS == 10
PROFIT_TARGET_RS == 1000
TRAILING_STEP_RS == 500
PROFIT_LOCK_ACTIVATION_RS == 700
PROFIT_LOCK_AMOUNT_RS == 350
INITIAL_STOP_LOSS_RS == -1000
MAX_DAILY_LOSS == 1000
\* '09:15', '09:30' and "15:15" as minutes after midnight
ORB_START_TIME == 555
ORB_END_TIME == 570
MARKET_CLOSE == 915

(* Bounds of the model *)
MaxTradesCfg == 2      \* MAX_TRADES_PER_DAY ranges over 1..MaxTradesCfg
MaxTrace == 5          \* check_breakout calls recorded (detector specification)
MaxEntries == 2        \* successful enter_position calls (direct-call specification)
MaxPeriod == 3         \* the estimator's period P ranges over 1..MaxPeriod
MaxCandles == 3        \* candles given to calculate_orb_levels called alone
MaxErrors == 1         \* faulty answers of the order API (SpecErr)

-----------------------------------------------------------------------------
(* Values *)

Abs(x) == IF x < 0 THEN 0 - x ELSE x

\* No quote at all (get_quote returned None)
NoQuote == 0 - 1

\* No stop order of the position rests at the exchange
NoTrigger == 0 - 1

\* float('inf')
Inf == [finite |-> FALSE, value |-> 0]

\* self.position = None
None == [option_type |-> "None", entry_price |-> 0, stop_loss |-> 0,
         target |-> Inf, max_price |-> 0, spot_price |-> 0, quantity |-> 0,
         sl_order_id |-> FALSE, sl_trigger |-> NoTrigger]

NoObs == [stage |-> "init", spot |-> NoQuote, signal |-> "None",
          enter |-> "not_called", price |-> NoQuote, ret |-> "None",
          candles |-> <<>>]

\* p paise as units of 1/LOT_SIZE paise
Units(p) == p * LOT_SIZE

\* x Rs as paise
Rs(x) == x * 100

\* round(u, 2): nearest multiple of LOT_SIZE units, ties to the even paise
Round2(u) ==
    LET q == u \div LOT_SIZE
        r == u % LOT_SIZE
    IN  IF 2 * r < LOT_SIZE THEN q * LOT_SIZE
        ELSE IF 2 * r > LOT_SIZE THEN (q + 1) * LOT_SIZE
        ELSE IF q % 2 = 0 THEN q * LOT_SIZE ELSE (q + 1) * LOT_SIZE

\* No volatility estimate has been computed
NoAtr == [done |-> FALSE, ok |-> FALSE, num |-> 0, den |-> 1]

\* The times of day the loop can read: one in each class the loop distinguishes
Times == {ORB_START_TIME - 1, ORB_START_TIME, ORB_END_TIME, ORB_END_TIME + 1,
          MARKET_CLOSE}

-----------------------------------------------------------------------------
(* calculate_orb_levels: a candle is [ts, high, low], ts in minutes since    *)
(* midnight of day 0                                                         *)

MinutesPerDay == 24 * 60

SetMax(S) == CHOOSE x \in S : \A y \in S : y <= x
SetMin(S) == CHOOSE x \in S : \A y \in S : x <= y

\* Mutant: the candle that starts at the end of the window is counted
InOrbWindow_closed(candles, i) ==
    LET current_date == candles[1].ts \div MinutesPerDay
        orb_start_dt == current_date * MinutesPerDay + ORB_START_TIME
        orb_end_dt == current_date * MinutesPerDay + ORB_END_TIME
    IN  candles[i].ts >= orb_start_dt /\ candles[i].ts <= orb_end_dt

\* Mutant: the window is taken on every candle's own date
InOrbWindow_each_day(candles, i) ==
    LET time_of_day == candles[i].ts % MinutesPerDay
    IN  time_of_day >= ORB_START_TIME /\ time_of_day < ORB_END_TIME

\* mask = (timestamp >= orb_start_dt) & (timestamp < orb_end_dt), both on the
\* date of the first candle
InOrbWindow(candles, i) ==
    LET current_date == candles[1].ts \div MinutesPerDay
        orb_start_dt == current_date * MinutesPerDay + ORB_START_TIME
        orb_end_dt == current_date * MinutesPerDay + ORB_END_TIME
    IN  candles[i].ts >= orb_start_dt /\ candles[i].ts < orb_end_dt

NoOrb == [ok |-> FALSE, high |-> 0, low |-> 0]

\* Mutant: an empty selection is not detected and gives a range of zeros
calculate_orb_levels_unchecked(candles) ==
    IF Len(candles) = 0 THEN NoOrb
    ELSE LET orb_df == {i \in 1..Len(candles) : InOrbWindow(candles, i)}
         IN  [ok |-> TRUE,
              high |-> SetMax({candles[i].high : i \in orb_df} \cup {0}),
              low |-> SetMin({candles[i].low : i \in orb_df} \cup {0})]

calculate_orb_levels(candles) ==
    IF Len(candles) = 0 THEN NoOrb
    ELSE LET orb_df == {i \in 1..Len(candles) : InOrbWindow(candles, i)}
         IN  IF orb_df = {} THEN NoOrb
             ELSE [ok |-> TRUE,
                   high |-> SetMax({candles[i].high : i \in orb_df}),
                   low |-> SetMin({candles[i].low : i \in orb_df})]

-----------------------------------------------------------------------------
(* check_breakout: the value returned and the armed flag it leaves *)

\* Mutant: the armed flag is not consulted before a trigger fires
check_breakout_unguarded(current_price) ==
    IF ~orb_formed THEN [ret |-> "None", waiting |-> waiting_for_breakout]
    ELSE IF orb_low <= current_price /\ current_price <= orb_high
         THEN [ret |-> "None", waiting |-> TRUE]
    ELSE IF current_price > orb_high + orb_buffer
         THEN [ret |-> "CE", waiting |-> FALSE]
    ELSE IF current_price < orb_low - orb_buffer
         THEN [ret |-> "PE", waiting |-> FALSE]
    ELSE [ret |-> "None", waiting |-> waiting_for_breakout]

\* Mutant: the triggers compare with >= and <=
check_breakout_nonstrict(current_price) ==
    IF ~orb_formed THEN [ret |-> "None", waiting |-> waiting_for_breakout]
    ELSE IF orb_low <= current_price /\ current_price <= orb_high
         THEN [ret |-> "None", waiting |-> TRUE]
    ELSE IF waiting_for_breakout
         THEN IF current_price >= orb_high + orb_buffer
              THEN [ret |-> "CE", waiting |-> FALSE]
              ELSE IF current_price <= orb_low - orb_buffer
                   THEN [ret |-> "PE", waiting |-> FALSE]
                   ELSE [ret |-> "None", waiting |-> waiting_for_breakout]
    ELSE [ret |-> "None", waiting |-> waiting_for_breakout]

\* Mutant: the re-arm test uses the open interval
check_breakout_open(current_price) ==
    IF ~orb_formed THEN [ret |-> "None", waiting |-> waiting_for_breakout]
    ELSE IF orb_low < current_price /\ current_price < orb_high
         THEN [ret |-> "None", waiting |-> TRUE]
    ELSE IF waiting_for_breakout
         THEN IF current_price > orb_high + orb_buffer
              THEN [ret |-> "CE", waiting |-> FALSE]
              ELSE IF current_price < orb_low - orb_buffer
                   THEN [ret |-> "PE", waiting |-> FALSE]
                   ELSE [ret |-> "None", waiting |-> waiting_for_breakout]
    ELSE [ret |-> "None", waiting |-> waiting_for_breakout]

\* Mutant: a signal does not consume the armed flag
check_breakout_unconsumed(current_price) ==
    IF ~orb_formed THEN [ret |-> "None", waiting |-> waiting_for_breakout]
    ELSE IF orb_low <= current_price /\ current_price <= orb_high
         THEN [ret |-> "None", waiting |-> TRUE]
    ELSE IF waiting_for_breakout
         THEN IF current_price > orb_high + orb_buffer
              THEN [ret |-> "CE", waiting |-> waiting_for_breakout]
              ELSE IF current_price < orb_low - orb_buffer
                   THEN [ret |-> "PE", waiting |-> waiting_for_breakout]
                   ELSE [ret |-> "None", waiting |-> waiting_for_breakout]
    ELSE [ret |-> "None", waiting |-> waiting_for_breakout]

\* Mutant: the triggers are evaluated whether or not the range is formed
check_breakout_unformed(current_price) ==
    IF orb_low <= current_price /\ current_price <= orb_high
    THEN [ret |-> "None", waiting |-> TRUE]
    ELSE IF waiting_for_breakout
         THEN IF current_price > orb_high + orb_buffer
              THEN [ret |-> "CE", waiting |-> FALSE]
              ELSE IF current_price < orb_low - orb_buffer
                   THEN [ret |-> "PE", waiting |-> FALSE]
                   ELSE [ret |-> "None", waiting |-> waiting_for_breakout]
    ELSE [ret |-> "None", waiting |-> waiting_for_breakout]

check_breakout(current_price) ==
    IF ~orb_formed THEN [ret |-> "None", waiting |-> waiting_for_breakout]
    ELSE IF orb_low <= current_price /\ current_price <= orb_high
         THEN [ret |-> "None", waiting |-> TRUE]
    ELSE IF waiting_for_breakout
         THEN IF current_price > orb_high + orb_buffer
              THEN [ret |-> "CE", waiting |-> FALSE]
              ELSE IF current_price < orb_low - orb_buffer
                   THEN [ret |-> "PE", waiting |-> FALSE]
                   ELSE [ret |-> "None", waiting |-> waiting_for_breakout]
    ELSE [ret |-> "None", waiting |-> waiting_for_breakout]

-----------------------------------------------------------------------------
(* enter_position *)

\* Mutant: the stop of the module docstring, 20% below entry
InitialStop_percent(entry_price) == (Units(entry_price) * 80) \div 100

\* sl_points = abs(initial_sl_rs) / lot_size; stop_loss = entry_price - sl_points
InitialStop(entry_price) == Units(entry_price) - Rs(Abs(INITIAL_STOP_LOSS_RS))

\* Mutant: the target of the module docstring, 40% above entry
EntryTarget_documented(entry_price) ==
    [finite |-> TRUE, value |-> (entry_price * 140) \div 100]

\* target = float('inf')
EntryTarget(entry_price) == Inf

\* trigger_price=round(stop_loss, 2) of the SL order placed at the exchange
EntryTrigger(entry_price) == Round2(InitialStop(entry_price))

\* The position after a completed entry: in live or sandbox execution the SL
\* order rests at the exchange and its id is kept in sl_order_id
NewPosition(option_type, spot_price, entry_price) ==
    [option_type |-> option_type, entry_price |-> entry_price,
     stop_loss |-> InitialStop(entry_price),
     target |-> EntryTarget(entry_price), max_price |-> entry_price,
     spot_price |-> spot_price, quantity |-> LOT_SIZE,
     sl_order_id |-> use_api,
     sl_trigger |-> IF use_api THEN EntryTrigger(entry_price) ELSE NoTrigger]

\* The position the except clause leaves behind: no sl_order_id was stored;
\* the SL order rests at the exchange only when its own response was the one
\* that could not be read
HalfEnteredPosition(option_type, spot_price, entry_price, order) ==
    [NewPosition(option_type, spot_price, entry_price) EXCEPT
        !.sl_order_id = FALSE,
        !.sl_trigger = IF order = "null_data" THEN NoTrigger
                       ELSE EntryTrigger(entry_price)]

\* What place_order returns: None, the response of a placed order, or such a
\* response whose 'data' is null, on which order.get('data', {}).get raises
OrderResponses ==
    IF faults_left > 0 THEN {"rejected", "null_data", "placed"}
    ELSE {"rejected", "placed"}

\* How enter_position ends, in the order of its early returns; "exception"
\* is the return from the except clause after the position was created
EnterResult(contract, quote, order, sl_order) ==
    IF ~contract THEN "no_contract"
    ELSE IF quote = NoQuote THEN "no_quote"
    ELSE IF quote = 0 THEN "zero_price"
    ELSE IF use_api
         THEN IF order = "rejected" THEN "entry_rejected"
              ELSE IF order = "null_data" THEN "exception"
              ELSE IF sl_order = "rejected" THEN "sl_rejected"
              ELSE IF sl_order = "null_data" THEN "exception"
              ELSE "ok"
    ELSE "ok"

\* Mutant: the trade is counted as soon as the position record is created,
\* also when the order is then rejected
enter_position_early(option_type, spot_price, contract, quote, order, sl_order) ==
    LET res == EnterResult(contract, quote, order, sl_order)
    IN  /\ position' = IF res = "ok"
                       THEN NewPosition(option_type, spot_price, quote)
                       ELSE IF res = "exception"
                       THEN HalfEnteredPosition(option_type, spot_price,
                                                quote, order)
                       ELSE IF res \in {"entry_rejected", "sl_rejected"}
                            THEN None ELSE position
        /\ trade_count' = IF res \in {"ok", "entry_rejected", "sl_rejected"}
                          THEN trade_count + 1 ELSE trade_count
        /\ faults_left' = IF res = "exception"
                        THEN faults_left - 1 ELSE faults_left

enter_position(option_type, spot_price, contract, quote, order, sl_order) ==
    LET res == EnterResult(contract, quote, order, sl_order)
    IN  /\ position' = IF res = "ok"
                       THEN NewPosition(option_type, spot_price, quote)
                       ELSE IF res = "exception"
                       THEN HalfEnteredPosition(option_type, spot_price,
                                                quote, order)
                       ELSE IF res \in {"entry_rejected", "sl_rejected"}
                            THEN None ELSE position
        /\ trade_count' = IF res = "ok" THEN trade_count + 1 ELSE trade_count
        /\ faults_left' = IF res = "exception"
                        THEN faults_left - 1 ELSE faults_left

-----------------------------------------------------------------------------
(* monitor_position *)

\* max_pnl_rs = (max_price - entry_price) * lot_size, in paise
MaxPnlRs(pos) == (pos.max_price - pos.entry_price) * LOT_SIZE

\* Mutant: the lock tier uses the default of config.get, 200, not the
\* configured amount
CalculatedSl_default_lock(pos) ==
    IF MaxPnlRs(pos) >= Rs(PROFIT_TARGET_RS)
    THEN Units(pos.entry_price) + (MaxPnlRs(pos) - Rs(TRAILING_STEP_RS))
    ELSE IF MaxPnlRs(pos) >= Rs(PROFIT_LOCK_ACTIVATION_RS)
         THEN Units(pos.entry_price) + Rs(200)
         ELSE pos.stop_loss

\* Mutant: the trailing tier locks the target less the step once, and does
\* not follow the peak
CalculatedSl_fixed_trail(pos) ==
    IF MaxPnlRs(pos) >= Rs(PROFIT_TARGET_RS)
    THEN Units(pos.entry_price)
         + (Rs(PROFIT_TARGET_RS) - Rs(TRAILING_STEP_RS))
    ELSE IF MaxPnlRs(pos) >= Rs(PROFIT_LOCK_ACTIVATION_RS)
         THEN Units(pos.entry_price) + Rs(PROFIT_LOCK_AMOUNT_RS)
         ELSE pos.stop_loss

\* Mutant: the lock tier trails the peak too, at the distance between the
\* activation and the locked amount
CalculatedSl_lock_trails(pos) ==
    IF MaxPnlRs(pos) >= Rs(PROFIT_TARGET_RS)
    THEN Units(pos.entry_price) + (MaxPnlRs(pos) - Rs(TRAILING_STEP_RS))
    ELSE IF MaxPnlRs(pos) >= Rs(PROFIT_LOCK_ACTIVATION_RS)
         THEN Units(pos.entry_price)
              + (MaxPnlRs(pos) - (Rs(PROFIT_LOCK_ACTIVATION_RS)
                                  - Rs(PROFIT_LOCK_AMOUNT_RS)))
         ELSE pos.stop_loss

\* Mutant: the trailing tier keeps no step behind the peak
CalculatedSl_no_step(pos) ==
    IF MaxPnlRs(pos) >= Rs(PROFIT_TARGET_RS)
    THEN Units(pos.entry_price) + MaxPnlRs(pos)
    ELSE IF MaxPnlRs(pos) >= Rs(PROFIT_LOCK_ACTIVATION_RS)
         THEN Units(pos.entry_price) + Rs(PROFIT_LOCK_AMOUNT_RS)
         ELSE pos.stop_loss

\* Mutant: the lock is activated by the locked amount, not by the activation
CalculatedSl_early_lock(pos) ==
    IF MaxPnlRs(pos) >= Rs(PROFIT_TARGET_RS)
    THEN Units(pos.entry_price) + (MaxPnlRs(pos) - Rs(TRAILING_STEP_RS))
    ELSE IF MaxPnlRs(pos) >= Rs(PROFIT_LOCK_AMOUNT_RS)
         THEN Units(pos.entry_price) + Rs(PROFIT_LOCK_AMOUNT_RS)
         ELSE pos.stop_loss

\* Mutant: only the trailing tier, no profit lock below the target
CalculatedSl_no_lock(pos) ==
    IF MaxPnlRs(pos) >= Rs(PROFIT_TARGET_RS)
    THEN Units(pos.entry_price) + (MaxPnlRs(pos) - Rs(TRAILING_STEP_RS))
    ELSE pos.stop_loss

\* calculated_sl after the two tiers, in units
CalculatedSl(pos) ==
    IF MaxPnlRs(pos) >= Rs(PROFIT_TARGET_RS)
    THEN Units(pos.entry_price) + (MaxPnlRs(pos) - Rs(TRAILING_STEP_RS))
    ELSE IF MaxPnlRs(pos) >= Rs(PROFIT_LOCK_ACTIVATION_RS)
         THEN Units(pos.entry_price) + Rs(PROFIT_LOCK_AMOUNT_RS)
         ELSE pos.stop_loss

\* Mutant: max_price follows the latest price
HighWaterMark_last(pos, current_price) == current_price

\* Update High Water Mark
HighWaterMark(pos, current_price) ==
    IF current_price > pos.max_price THEN current_price ELSE pos.max_price

\* Mutant: the stop follows the current price, with no ratchet
StopAfter_naive(pos, current_price) ==
    LET current_pnl_rs == (current_price - pos.entry_price) * LOT_SIZE
    IN  IF current_pnl_rs >= Rs(PROFIT_TARGET_RS)
        THEN Round2(Units(pos.entry_price)
                    + (current_pnl_rs - Rs(TRAILING_STEP_RS)))
        ELSE IF current_pnl_rs >= Rs(PROFIT_LOCK_ACTIVATION_RS)
             THEN Round2(Units(pos.entry_price) + Rs(PROFIT_LOCK_AMOUNT_RS))
             ELSE pos.stop_loss

\* Update SL only if it moves UP; pos already carries the new max_price
StopAfter(pos, current_price) ==
    IF CalculatedSl(pos) > pos.stop_loss
    THEN Round2(CalculatedSl(pos)) ELSE pos.stop_loss

\* The position as monitor_position leaves it on a quote with this price
Monitored(pos, current_price) ==
    LET p1 == [pos EXCEPT !.max_price = HighWaterMark(pos, current_price)]
    IN  [p1 EXCEPT !.stop_loss = StopAfter(p1, current_price)]

\* Whether monitor_position calls modify_order on a quote with this price:
\* the stop is updated, execution is live or sandbox, and sl_order_id is kept
ModifyCalled(pos, current_price) ==
    LET p1 == [pos EXCEPT !.max_price = HighWaterMark(pos, current_price)]
    IN  CalculatedSl(p1) > p1.stop_loss /\ use_api /\ pos.sl_order_id

\* What modify_order returns: True, or False when the request is rejected or
\* raises
ModifyResponses(pos, current_price) ==
    IF ModifyCalled(pos, current_price) /\ faults_left > 0
    THEN BOOLEAN ELSE {TRUE}

\* pos, after monitor_position updated it, with the stop order at the
\* exchange: new_trigger_price=new_sl takes effect when the request succeeds;
\* what modify_order returns is not looked at
AtExchange(pos, called, modify_ok) ==
    IF called /\ modify_ok THEN [pos EXCEPT !.sl_trigger = pos.stop_loss]
    ELSE pos

\* Mutant: the stop is hit only strictly below it
MonitorRet_strict(pos, current_price) ==
    IF Units(current_price) < pos.stop_loss THEN "STOP_LOSS" ELSE "None"

\* The value monitor_position returns, pos being the updated position
MonitorRet(pos, current_price) ==
    IF Units(current_price) <= pos.stop_loss THEN "STOP_LOSS" ELSE "None"

-----------------------------------------------------------------------------
(* exit_position *)

\* exit_price = quote.get('last_price', 0) if quote else 0
ExitPrice(quote) == IF quote = NoQuote THEN 0 ELSE quote

\* pnl = exit_price - entry_price
ExitPnl(pos, quote) == ExitPrice(quote) - pos.entry_price

\* Mutant: one trade more than the limit
MaxTradesReached_late == trade_count > max_trades

\* Mutant: a loss exactly at the limit does not count
MaxLossHit_strict(pnl_total) == pnl_total < 0 - max_daily_loss

\* The two sys.exit(0) branches after total_pnl is updated
MaxTradesReached == trade_count >= max_trades
MaxLossHit(pnl_total) == pnl_total <= 0 - max_daily_loss

\* Mutant: the limits set trade_completed but the process is not exited
exit_position_no_exit(exit_reason, quote, after_pc) ==
    LET pnl == ExitPnl(position, quote)
        halts == MaxTradesReached \/ MaxLossHit(total_pnl + pnl)
    IN  /\ position' = None
        /\ total_pnl' = total_pnl + pnl
        /\ trade_completed' = (trade_completed \/ halts)
        /\ pc' = after_pc
        /\ obs' = [NoObs EXCEPT !.stage = exit_reason, !.price = quote]

\* exit_position; after_pc is where run continues when the process goes on
exit_position(exit_reason, quote, after_pc) ==
    LET pnl == ExitPnl(position, quote)
        halts == MaxTradesReached \/ MaxLossHit(total_pnl + pnl)
    IN  /\ position' = None
        /\ total_pnl' = total_pnl + pnl
        /\ trade_completed' = (trade_completed \/ halts)
        /\ pc' = IF halts THEN "halted" ELSE after_pc
        /\ obs' = [NoObs EXCEPT !.stage = exit_reason, !.price = quote]

-----------------------------------------------------------------------------
(* Inputs: what the market-data and order collaborators can answer *)

\* 1-minute candles of the index: the first and the last minute of the
\* window and the first minute after it, in two overlapping shapes
Bars == {[ts |-> t, high |-> hl[1], low |-> hl[2]] :
            t \in {ORB_START_TIME, ORB_END_TIME - 1, ORB_END_TIME},
            hl \in {<<24850, 24810>>, <<24840, 24800>>}}

\* get_intraday_candles: None/empty, or up to two candles
CandleInputs == {<<>>} \cup {<<b>> : b \in Bars}
                       \cup {<<a, b>> : a \in Bars, b \in Bars}

\* Index quotes around a formed range: no quote, a quote without last_price
\* (read as 0), and prices on both sides of each edge and trigger
SpotQuotes == {NoQuote, 0,
               orb_low - orb_buffer - 1, orb_low - orb_buffer, orb_low,
               orb_high, orb_high + orb_buffer, orb_high + orb_buffer + 5}

\* get_option_key on the ATM strike of the spot price: the chain may or may
\* not list it, and lists no strike 0
ContractFound(spot_price) == IF spot_price = 0 THEN {FALSE} ELSE BOOLEAN

\* Option prices at entry, in paise
EntryPrices == {15000, 2000}

\* Later option prices, as distances from the entry price in paise
TickOffsets == {0 - 1539, 0 - 1538, 500, 538, 539, 1000, 1076, 1077, 1500,
                1539, 1600}

OptionQuotes(pos) ==
    {NoQuote, 0} \cup {p \in {pos.entry_price + d : d \in TickOffsets} : p > 0}

\* The quote exit_position fetches for the final price
ExitOffsets == {0 - 1539, 0 - 1538, 539}

ExitQuotes(pos) ==
    {NoQuote} \cup {p \in {pos.entry_price + d : d \in ExitOffsets} : p > 0}

\* max_daily_loss = abs(MAX_DAILY_LOSS), in paise; the configured value and a
\* small one that a single trade can reach
DailyLossCfgs == {Rs(MAX_DAILY_LOSS), 1538}

-----------------------------------------------------------------------------
(* The run loop *)

\* This variant of the strategy has no volatility estimator
NoEstimator == buckets = <<>> /\ atr_period = 0 /\ atr = NoAtr

Init ==
    /\ now = ORB_START_TIME - 1
    /\ pc = "top"
    /\ orb_formed = FALSE /\ orb_high = 0 /\ orb_low = 0
    /\ orb_buffer = ORB_BUFFER_POINTS
    /\ waiting_for_breakout = TRUE
    /\ position = None
    /\ trade_count = 0 /\ total_pnl = 0 /\ trade_completed = FALSE
    /\ max_trades \in 1..MaxTradesCfg
    /\ max_daily_loss \in DailyLossCfgs
    /\ use_api \in BOOLEAN
    /\ exit_signal = "None"
    /\ obs = NoObs
    /\ bo_log = <<>> /\ faults_left = 0
    /\ NoEstimator

Config == <<orb_buffer, max_trades, max_daily_loss, use_api>>
Estimator == <<buckets, atr_period, atr>>
Range == <<orb_formed, orb_high, orb_low>>
Counters == <<trade_count, total_pnl, trade_completed>>

\* Mutant: the breakout stage does not ask whether a position is open
Stage3Cond_any_position == orb_formed /\ ~trade_completed

\* Mutant: the range is calculated again in every iteration after the window
Stage2Cond_always(t) == t > ORB_END_TIME

\* The conditions of the if/elif chain of the loop body
Stage1Cond(t) == ORB_START_TIME <= t /\ t <= ORB_END_TIME /\ ~orb_formed
Stage2Cond(t) == t > ORB_END_TIME /\ ~orb_formed
Stage3Cond == orb_formed /\ position = None /\ ~trade_completed
Stage4Cond == position # None

\* now = get_ist_time(): the clock never runs backwards
ReadClock(t) == pc = "top" /\ t \in Times /\ t >= now /\ now' = t

\* STAGE 1: the range is forming; the quote is only logged
Stage1(t) ==
    /\ ReadClock(t) /\ Stage1Cond(t)
    /\ pc' = "close_check"
    /\ obs' = [NoObs EXCEPT !.stage = "stage1"]
    /\ UNCHANGED <<Range, Config, Counters, waiting_for_breakout, position,
                   exit_signal, bo_log, Estimator, faults_left>>

\* STAGE 2: calculate the range from the candles
Stage2(t) ==
    /\ ReadClock(t) /\ ~Stage1Cond(t) /\ Stage2Cond(t)
    /\ \E candles \in CandleInputs :
          LET orb_data == calculate_orb_levels(candles)
          IN  /\ IF orb_data.ok
                 THEN /\ orb_high' = orb_data.high
                      /\ orb_low' = orb_data.low
                      /\ orb_formed' = TRUE
                 ELSE UNCHANGED Range
              /\ obs' = [NoObs EXCEPT !.stage = "stage2",
                                      !.candles = candles]
    /\ pc' = "close_check"
    /\ UNCHANGED <<Config, Counters, waiting_for_breakout, position,
                   exit_signal, bo_log, Estimator, faults_left>>

\* STAGE 3: watch the index for a breakout and enter on a signal
Stage3(t) ==
    /\ ReadClock(t) /\ ~Stage1Cond(t) /\ ~Stage2Cond(t) /\ Stage3Cond
    /\ \E spot \in SpotQuotes :
          IF spot = NoQuote
          THEN /\ obs' = [NoObs EXCEPT !.stage = "stage3"]
               /\ UNCHANGED <<waiting_for_breakout, position, trade_count,
                              faults_left>>
          ELSE LET breakout == check_breakout(spot)
               IN  /\ waiting_for_breakout' = breakout.waiting
                   /\ IF breakout.ret # "None"
                      THEN \E contract \in ContractFound(spot),
                              quote \in {NoQuote, 0} \cup EntryPrices,
                              order \in OrderResponses,
                              sl_order \in OrderResponses :
                             /\ enter_position(breakout.ret, spot, contract,
                                               quote, order, sl_order)
                             /\ obs' = [NoObs EXCEPT
                                          !.stage = "stage3", !.spot = spot,
                                          !.signal = breakout.ret,
                                          !.price = IF contract THEN quote
                                                    ELSE NoQuote,
                                          !.enter = EnterResult(contract,
                                              quote, order, sl_order)]
                      ELSE /\ obs' = [NoObs EXCEPT !.stage = "stage3",
                                                   !.spot = spot]
                           /\ UNCHANGED <<position, trade_count,
                                          faults_left>>
    /\ pc' = "close_check"
    /\ UNCHANGED <<Range, Config, total_pnl, trade_completed, exit_signal,
                   bo_log, Estimator>>

\* Mutant: monitoring a position arms the detector again
Stage4_rearms(t) ==
    /\ ReadClock(t) /\ ~Stage1Cond(t) /\ ~Stage2Cond(t) /\ ~Stage3Cond
    /\ Stage4Cond
    /\ \E quote \in OptionQuotes(position) :
          IF quote = NoQuote
          THEN /\ obs' = [NoObs EXCEPT !.stage = "stage4"]
               /\ exit_signal' = "None"
               /\ UNCHANGED <<position, faults_left>>
          ELSE \E modify_ok \in ModifyResponses(position, quote) :
               LET called == ModifyCalled(position, quote)
                   pos == AtExchange(Monitored(position, quote), called,
                                     modify_ok)
                   ret == MonitorRet(pos, quote)
               IN  /\ position' = pos
                   /\ exit_signal' = ret
                   /\ obs' = [NoObs EXCEPT !.stage = "stage4",
                                           !.price = quote, !.ret = ret]
                   /\ faults_left' = IF called /\ ~modify_ok
                                     THEN faults_left - 1 ELSE faults_left
    /\ pc' = IF exit_signal' # "None" THEN "exit" ELSE "close_check"
    /\ waiting_for_breakout' = TRUE
    /\ UNCHANGED <<Range, Config, Counters, bo_log, Estimator>>

\* STAGE 4: monitor_position, then exit_position when it returns a signal
Stage4(t) ==
    /\ ReadClock(t) /\ ~Stage1Cond(t) /\ ~Stage2Cond(t) /\ ~Stage3Cond
    /\ Stage4Cond
    /\ \E quote \in OptionQuotes(position) :
          IF quote = NoQuote
          THEN /\ obs' = [NoObs EXCEPT !.stage = "stage4"]
               /\ exit_signal' = "None"
               /\ UNCHANGED <<position, faults_left>>
          ELSE \E modify_ok \in ModifyResponses(position, quote) :
               LET called == ModifyCalled(position, quote)
                   pos == AtExchange(Monitored(position, quote), called,
                                     modify_ok)
                   ret == MonitorRet(pos, quote)
               IN  /\ position' = pos
                   /\ exit_signal' = ret
                   /\ obs' = [NoObs EXCEPT !.stage = "stage4",
                                           !.price = quote, !.ret = ret]
                   /\ faults_left' = IF called /\ ~modify_ok
                                     THEN faults_left - 1 ELSE faults_left
    /\ pc' = IF exit_signal' # "None" THEN "exit" ELSE "close_check"
    /\ UNCHANGED <<Range, Config, Counters, waiting_for_breakout, bo_log,
                   Estimator>>

\* if exit_signal: self.exit_position(exit_signal)
ExitOnSignal ==
    /\ pc = "exit"
    /\ \E quote \in ExitQuotes(position) :
          exit_position(exit_signal, quote, "close_check")
    /\ exit_signal' = "None"
    /\ UNCHANGED <<now, Range, Config, waiting_for_breakout, trade_count,
                   bo_log, Estimator, faults_left>>

\* No branch of the chain applies in this iteration
NoStage(t) ==
    /\ ReadClock(t) /\ ~Stage1Cond(t) /\ ~Stage2Cond(t) /\ ~Stage3Cond
    /\ ~Stage4Cond
    /\ pc' = "close_check"
    /\ obs' = [NoObs EXCEPT !.stage = "none"]
    /\ UNCHANGED <<Range, Config, Counters, waiting_for_breakout, position,
                   exit_signal, bo_log, Estimator, faults_left>>

\* Mutant: the loop ends at the close without exiting the open position
MarketCloseCheck_no_exit ==
    /\ pc = "close_check"
    /\ pc' = IF now >= MARKET_CLOSE THEN "done" ELSE "top"
    /\ UNCHANGED <<position, Counters, obs>>
    /\ UNCHANGED <<now, Range, Config, waiting_for_breakout, exit_signal,
                   bo_log, Estimator, faults_left>>

\* MARKET CLOSE CHECK, with the current_time read at the top of the iteration
MarketCloseCheck ==
    /\ pc = "close_check"
    /\ IF now >= MARKET_CLOSE
       THEN IF position # None
            THEN /\ \E quote \in ExitQuotes(position) :
                       exit_position("MARKET_CLOSE", quote, "done")
                 /\ UNCHANGED trade_count
            ELSE /\ pc' = "done"
                 /\ UNCHANGED <<position, Counters, obs>>
       ELSE /\ pc' = "top"
            /\ UNCHANGED <<position, Counters, obs>>
    /\ UNCHANGED <<now, Range, Config, waiting_for_breakout, exit_signal,
                   bo_log, Estimator, faults_left>>

Next ==
    \/ \E t \in Times : Stage1(t)
    \/ \E t \in Times : Stage2(t)
    \/ \E t \in Times : Stage3(t)
    \/ \E t \in Times : Stage4(t)
    \/ \E t \in Times : NoStage(t)
    \/ ExitOnSignal
    \/ MarketCloseCheck

Spec == Init /\ [][Next]_vars

\* Live or sandbox execution with the configured loss limit
InitLive == Init /\ use_api = TRUE /\ max_daily_loss = Rs(MAX_DAILY_LOSS)

\* Every call of the loop body returns (the requests have timeouts and the
\* sleeps are finite), so the loop always takes its next step
SpecFair == InitLive /\ [][Next]_vars /\ WF_vars(Next)

\* The run loop in live or sandbox execution when place_order may answer with
\* a response that carries no data
InitErr ==
    /\ now = ORB_START_TIME - 1
    /\ pc = "top"
    /\ orb_formed = FALSE /\ orb_high = 0 /\ orb_low = 0
    /\ orb_buffer = ORB_BUFFER_POINTS
    /\ waiting_for_breakout = TRUE
    /\ position = None
    /\ trade_count = 0 /\ total_pnl = 0 /\ trade_completed = FALSE
    /\ max_trades \in 1..MaxTradesCfg
    /\ max_daily_loss = Rs(MAX_DAILY_LOSS)
    /\ use_api = TRUE
    /\ exit_signal = "None"
    /\ obs = NoObs
    /\ bo_log = <<>> /\ faults_left = MaxErrors
    /\ NoEstimator

SpecErr == InitErr /\ [][Next]_vars

-----------------------------------------------------------------------------
(* The breakout detector on its own: check_breakout applied to any sequence  *)
(* of prices over a formed range, every call recorded in bo_log              *)

\* <<orb_low, orb_high, orb_buffer>>
DetectorCfgs == {<<100, 110, 5>>, <<100, 110, 0>>,
                 <<24800, 24850, ORB_BUFFER_POINTS>>}

\* Prices on both sides of each edge and trigger, and inside the range
DetectorPrices == {orb_low - orb_buffer - 1, orb_low - orb_buffer, orb_low,
                   orb_low + 5, orb_low + 7, orb_high,
                   orb_high + orb_buffer, orb_high + orb_buffer + 1}

InitDetector ==
    /\ now = ORB_END_TIME + 1
    /\ pc = "top"
    /\ orb_formed = TRUE
    /\ \E c \in DetectorCfgs :
          orb_low = c[1] /\ orb_high = c[2] /\ orb_buffer = c[3]
    /\ waiting_for_breakout = TRUE
    /\ position = None
    /\ trade_count = 0 /\ total_pnl = 0 /\ trade_completed = FALSE
    /\ max_trades = 1
    /\ max_daily_loss = Rs(MAX_DAILY_LOSS)
    /\ use_api = FALSE
    /\ exit_signal = "None"
    /\ obs = NoObs
    /\ bo_log = <<>> /\ faults_left = 0
    /\ NoEstimator

Evaluate(price) ==
    /\ Len(bo_log) < MaxTrace
    /\ LET breakout == check_breakout(price)
       IN  /\ waiting_for_breakout' = breakout.waiting
           /\ bo_log' = Append(bo_log,
                  [price |-> price, ret |-> breakout.ret,
                   before |-> waiting_for_breakout,
                   after |-> breakout.waiting])
    /\ UNCHANGED <<now, pc, Range, Config, position, Counters, exit_signal,
                   obs, Estimator, faults_left>>

NextDetector == \E price \in DetectorPrices : Evaluate(price)

SpecDetector == InitDetector /\ [][NextDetector]_vars

-----------------------------------------------------------------------------
(* Claims about the detector, checked under SpecDetector *)

Inside(price) == orb_low <= price /\ price <= orb_high

Calls == 1..Len(bo_log)

\* C3: between any two signals of check_breakout there is an observation
\* with low <= price <= high, and a disarmed detector seeing a price outside
\* [low, high] emits no signal and keeps the armed flag as it is.
C3_OneSignalPerExcursion ==
    /\ \A i \in Calls, j \in Calls :
          (i < j /\ bo_log[i].ret # "None" /\ bo_log[j].ret # "None")
          => \E k \in (i + 1)..(j - 1) : Inside(bo_log[k].price)
    /\ \A i \in Calls :
          (~bo_log[i].before /\ ~Inside(bo_log[i].price))
          => (bo_log[i].ret = "None" /\ bo_log[i].after = bo_log[i].before)

\* Two signals with a return inside the range between them, and a call made
\* disarmed at a price beyond the trigger
C3_Witness ==
    /\ \E i \in Calls, j \in Calls :
          i < j /\ bo_log[i].ret # "None" /\ bo_log[j].ret # "None"
    /\ \E i \in Calls :
          ~bo_log[i].before /\ bo_log[i].price > orb_high + orb_buffer

C4Range == orb_low = 100 /\ orb_high = 110 /\ orb_buffer = 5

\* The calls made so far are the first calls of this sequence of prices
Follows(prices) ==
    /\ Len(bo_log) <= Len(prices)
    /\ \A i \in Calls : bo_log[i].price = prices[i]

\* Every call made so far returned, and left the armed flag, as listed
Answers(rets, armed) ==
    \A i \in Calls : bo_log[i].ret = rets[i] /\ bo_log[i].after = armed[i]

\* C4 as stated: with range 100..110 and buffer 5, starting armed, the calls
\* 107, 116, 116, 105, 95 return none (armed), upside, none, none (re-armed),
\* downside.
C4_AsStated ==
    (C4Range /\ Follows(<<107, 116, 116, 105, 95>>))
    => Answers(<<"None", "CE", "None", "None", "PE">>,
               <<TRUE, FALSE, FALSE, TRUE, FALSE>>)

\* C4 amended: the calls 107, 116, 116, 105 behave as stated; the fifth call
\* returns none and stays armed at 95, which is not below low - buffer = 95,
\* and returns downside at 94.
C4_Sequence ==
    /\ (C4Range /\ Follows(<<107, 116, 116, 105, 95>>))
       => Answers(<<"None", "CE", "None", "None", "None">>,
                  <<TRUE, FALSE, FALSE, TRUE, TRUE>>)
    /\ (C4Range /\ Follows(<<107, 116, 116, 105, 94>>))
       => Answers(<<"None", "CE", "None", "None", "PE">>,
                  <<TRUE, FALSE, FALSE, TRUE, FALSE>>)

\* All five calls of the stated sequence have been made
C4_Witness ==
    C4Range /\ Len(bo_log) = 5 /\ Follows(<<107, 116, 116, 105, 95>>)

\* C5: a price equal to high or low never signals and leaves the detector
\* armed; an upside signal needs price > high + B and a downside signal
\* price < low - B; an armed detector in the buffer zone returns none and
\* stays armed.
C5_BoundaryPolicy ==
    \A i \in Calls :
       LET c == bo_log[i]
       IN  /\ (c.price = orb_high \/ c.price = orb_low)
              => (c.ret = "None" /\ c.after)
           /\ c.ret = "CE" => c.price > orb_high + orb_buffer
           /\ c.ret = "PE" => c.price < orb_low - orb_buffer
           /\ (c.before /\ (\/ (orb_high < c.price
                                /\ c.price <= orb_high + orb_buffer)
                            \/ (orb_low - orb_buffer <= c.price
                                /\ c.price < orb_low)))
              => (c.ret = "None" /\ c.after)

\* A disarmed detector re-armed at exactly high, and an armed one that saw
\* the price exactly at a trigger
C5_Witness ==
    /\ orb_buffer > 0
    /\ \E i \in Calls : ~bo_log[i].before /\ bo_log[i].price = orb_high
    /\ \E i \in Calls :
          bo_log[i].before /\ bo_log[i].price = orb_low - orb_buffer

-----------------------------------------------------------------------------
(* Claims about the risk engine and the daily limits, checked under Spec *)

\* The step just taken is an iteration of this stage of the loop
StageStep(stage) == pc = "top" /\ obs'.stage = stage

\* The latest step was monitor_position on a quote
Monitoring == obs.stage = "stage4" /\ obs.price # NoQuote

\* C1: while a position is open its stop_loss, as stored after the
\* 2-decimal rounding, is never lower after a step than before it.
C1_StopNeverDecreases ==
    [][(position # None /\ position' # None)
       => position'.stop_loss >= position.stop_loss]_vars

\* The stop has been raised and a later price below the peak left it there
C1_Witness ==
    /\ Monitoring /\ position # None
    /\ position.stop_loss > InitialStop(position.entry_price)
    /\ obs.price < position.max_price
    /\ obs.ret = "None"

\* C2: enter_position is invoked only in a step that starts with no position
\* open, and no step taken with a position open counts a new trade.
C2_OnePosition ==
    [][/\ (StageStep("stage3") /\ obs'.enter # "not_called")
          => position = None
       /\ position # None => trade_count' = trade_count]_vars

\* A second position has been opened after the first was closed
C2_Witness == position # None /\ obs.enter = "ok" /\ trade_count = 2

\* C6: on a quote, monitor_position returns STOP_LOSS exactly when the price
\* is at or below the stop_loss the update leaves; otherwise it returns none;
\* the position is still open when it returns.
C6_StopLossExactly ==
    Monitoring
    => /\ position # None
       /\ obs.ret \in {"STOP_LOSS", "None"}
       /\ exit_signal = obs.ret
       /\ obs.ret = "STOP_LOSS" <=> Units(obs.price) <= position.stop_loss

\* The price equals a stop that the same position raised earlier
C6_Witness ==
    /\ Monitoring /\ obs.ret = "STOP_LOSS"
    /\ Units(obs.price) = position.stop_loss
    /\ position.stop_loss > InitialStop(position.entry_price)

C8_EntryOnlyWithinLimits ==
    [][(position = None /\ position' # None)
       => (trade_count < max_trades /\ total_pnl > 0 - max_daily_loss)]_vars

\* A position opened after an earlier trade closed at a loss
C8_Witness ==
    /\ position # None /\ obs.enter = "ok"
    /\ trade_count = 2 /\ total_pnl < 0

\* C9: whenever total_pnl is at or below -max_daily_loss the process has
\* exited with no position, and after the exit nothing changes any more.
C9_LossHaltIsFinal ==
    /\ [](total_pnl <= 0 - max_daily_loss
          => (pc = "halted" /\ trade_completed /\ position = None))
    /\ [][pc = "halted" => UNCHANGED vars]_vars

\* Halted by a loss exactly at the limit, with trades still allowed
C9_Witness ==
    /\ pc = "halted" /\ total_pnl = 0 - max_daily_loss
    /\ trade_count < max_trades

C10Range == orb_low = 24800 /\ orb_high = 24850 /\ orb_buffer = 10

\* The position entered at 150.00 with the given peak (paise) and stop (units)
C10Position(pos, max_price, stop_loss) ==
    /\ pos.entry_price = 15000 /\ pos.quantity = 65
    /\ pos.max_price = max_price /\ pos.stop_loss = stop_loss

\* C10: with range 24800..24850, buffer 10 and the configured Rs amounts:
\* the index at 24865 gives the upside signal; entry at 150.00 sets the stop
\* to 150 - 1000/65 (134.62 to 2 decimals); the option at 160.00 leaves the
\* stop and does not exit; at 165.00 the stop becomes 155.38; at 155.00 the
\* update returns STOP_LOSS.
C10_EndToEnd ==
    [][/\ (C10Range /\ StageStep("stage3") /\ waiting_for_breakout
           /\ obs'.spot = 24865)
          => obs'.signal = "CE"
       /\ (StageStep("stage3") /\ obs'.enter = "ok"
           /\ position'.entry_price = 15000)
          => /\ C10Position(position', 15000, 15000 * 65 - 100000)
             /\ 2 * Abs(position'.stop_loss - 13462 * 65) < 65
       /\ (StageStep("stage4") /\ obs'.price = 16000
           /\ C10Position(position, 15000, 15000 * 65 - 100000))
          => /\ C10Position(position', 16000, 15000 * 65 - 100000)
             /\ obs'.ret = "None" /\ pc' # "exit"
       /\ (StageStep("stage4") /\ obs'.price = 16500
           /\ C10Position(position, 16000, 15000 * 65 - 100000))
          => /\ C10Position(position', 16500, 15538 * 65)
             /\ obs'.ret = "None" /\ pc' # "exit"
       /\ (StageStep("stage4") /\ obs'.price = 15500
           /\ C10Position(position, 16500, 15538 * 65))
          => /\ obs'.ret = "STOP_LOSS" /\ exit_signal' = "STOP_LOSS"
             /\ pc' = "exit"]_vars

\* The last step of the trace: the call option entered on the 24865 tick at
\* 150.00, peak 165.00, stop 155.38, stopped out at 155.00
C10_Witness ==
    /\ C10Range /\ pc = "exit" /\ exit_signal = "STOP_LOSS"
    /\ position.option_type = "CE" /\ position.spot_price = 24865
    /\ C10Position(position, 16500, 15538 * 65)
    /\ obs.price = 15500

-----------------------------------------------------------------------------
(* Claims about entering and closing a position, checked under Spec *)

\* The step just taken is exit_position closing the open position
ExitStep == position # None /\ position' = None

\* The final price exit_position used, read from what the step recorded
ExitPriceUsed(o) == IF o.price = NoQuote THEN 0 ELSE o.price

\* C11: closing a position computes pnl = (exit_price - entry_price) x
\* quantity, adds that value to total_pnl and clears the position.
C11_PnlTimesQuantity ==
    [][ExitStep
       => /\ total_pnl' = total_pnl + (ExitPriceUsed(obs') - position.entry_price)
                                       * position.quantity
          /\ position' = None]_vars

\* The step just taken is a call of enter_position that returned True
EntryStep == StageStep("stage3") /\ obs'.enter = "ok"

\* C12: a successful entry creates the position at the quoted price with
\* stop_loss = entry_price - |INITIAL_STOP_LOSS_RS| / quantity (unrounded),
\* max_price = entry_price and an unbounded target.
C12_EntryCreatesPosition ==
    [][EntryStep
       => /\ position'.entry_price = obs'.price
          /\ position'.quantity = LOT_SIZE
          /\ position'.stop_loss
               = position'.entry_price * position'.quantity
                 - Rs(Abs(INITIAL_STOP_LOSS_RS))
          /\ position'.max_price = position'.entry_price
          /\ ~position'.target.finite]_vars

\* A put entered at 20.00, whose stop is 20 - 1000/65
C12_Witness ==
    /\ obs.stage = "stage3" /\ obs.enter = "ok" /\ obs.price = 2000
    /\ position.option_type = "PE"
    /\ position.stop_loss = 2000 * 65 - 100000
    /\ position.max_price = 2000

\* C13: on entry the stop loss is 20% below the entry price and the target
\* 40% above it.
C13_DocumentedLevels ==
    [][EntryStep
       => /\ position'.stop_loss * 100 = Units(position'.entry_price) * 80
          /\ position'.target.finite
          /\ position'.target.value * 100 = position'.entry_price * 140]_vars

-----------------------------------------------------------------------------
(* Claims about the opening range, checked under Spec *)

\* The candles of the latest range calculation that lie in 9:15 <= ts < 9:30
C14InWindow ==
    {i \in 1..Len(obs.candles) :
        ORB_START_TIME <= obs.candles[i].ts /\ obs.candles[i].ts < ORB_END_TIME}

\* C14: when the candles given to the range calculation hold at least one
\* candle inside the window, the range is formed with orb_high >= orb_low,
\* orb_high the high of some in-window candle and orb_low the low of some
\* in-window candle.
C14_RangeFromBars ==
    (obs.stage = "stage2" /\ C14InWindow # {})
    => /\ orb_formed
       /\ orb_high >= orb_low
       /\ \E i \in C14InWindow : obs.candles[i].high = orb_high
       /\ \E i \in C14InWindow : obs.candles[i].low = orb_low

\* Two in-window candles, the high from the first and the low from the second
C14_Witness ==
    /\ obs.stage = "stage2" /\ Len(obs.candles) = 2 /\ C14InWindow = {1, 2}
    /\ obs.candles[1].high = orb_high /\ obs.candles[1].low > orb_low
    /\ obs.candles[2].low = orb_low /\ obs.candles[2].high < orb_high

\* C15: once orb_formed is true it stays true and orb_high and orb_low keep
\* their values in every later step.
C15_RangeImmutable ==
    [][orb_formed
       => (orb_formed' /\ orb_high' = orb_high /\ orb_low' = orb_low)]_vars

\* The range is still the one formed after an entry and a stop-loss exit
C15_Witness ==
    /\ orb_formed /\ orb_high = 24840 /\ orb_low = 24800
    /\ obs.stage = "STOP_LOSS" /\ trade_count = 1 /\ position = None

-----------------------------------------------------------------------------
(* Claims about unavailable market data, checked under Spec *)

\* The fetch that opens the stage of the step just taken returned nothing:
\* no candles in stage 2, no index quote in stage 3, no quote of the position
\* in monitor_position
C16StageUnavailable ==
    \/ StageStep("stage2") /\ obs'.candles = <<>>
    \/ StageStep("stage3") /\ obs'.spot = NoQuote
    \/ StageStep("stage4") /\ obs'.price = NoQuote

\* The stage is skipped and control goes on to the end of the iteration
C16StageSkipped ==
    /\ UNCHANGED <<Range, waiting_for_breakout, position, Counters>>
    /\ obs'.signal = "None" /\ obs'.ret = "None" /\ exit_signal' = "None"
    /\ pc' = "close_check"

\* The step just taken is a call of exit_position whose quote was unavailable
C16ExitUnavailable ==
    /\ pc = "exit" \/ (pc = "close_check" /\ now >= MARKET_CLOSE)
    /\ position # None
    /\ obs'.price = NoQuote

\* C16: a step of the loop in which the market data asked for is unavailable
\* (no candles, no index quote, no quote of the position) leaves the range,
\* the armed flag, the position and the session counters unchanged and
\* produces no signal or exit reason; in particular no unavailable quote
\* changes trade_count or total_pnl.
C16_UnavailableChangesNothing ==
    [][/\ C16StageUnavailable => C16StageSkipped
       /\ C16ExitUnavailable
          => (trade_count' = trade_count /\ total_pnl' = total_pnl)]_vars

\* The part of C16 about the three fetches that open a stage
C16_StagesSkip == [][C16StageUnavailable => C16StageSkipped]_vars

-----------------------------------------------------------------------------
(* The operations of NiftyORBStrategy called one at a time by a caller other *)
(* than run: enter_position, monitor_position and exit_position over a       *)
(* formed range, in any order                                                *)

InitCalls ==
    /\ now = ORB_END_TIME + 1
    /\ pc = "top"
    /\ orb_formed = TRUE /\ orb_high = 24850 /\ orb_low = 24800
    /\ orb_buffer = ORB_BUFFER_POINTS
    /\ waiting_for_breakout = TRUE
    /\ position = None
    /\ trade_count = 0 /\ total_pnl = 0 /\ trade_completed = FALSE
    /\ max_trades \in 1..MaxTradesCfg
    /\ max_daily_loss = Rs(MAX_DAILY_LOSS)
    /\ use_api \in BOOLEAN
    /\ exit_signal = "None"
    /\ obs = NoObs
    /\ bo_log = <<>> /\ faults_left = 0
    /\ NoEstimator

\* enter_position(option_type, spot_price, expiry), whatever self.position is
CallEnter ==
    /\ pc = "top" /\ trade_count < MaxEntries
    /\ \E option_type \in {"CE", "PE"}, contract \in BOOLEAN,
          quote \in {NoQuote, 0} \cup EntryPrices,
          order \in OrderResponses, sl_order \in OrderResponses :
          LET spot_price == IF option_type = "CE"
                            THEN orb_high + orb_buffer + 5
                            ELSE orb_low - orb_buffer - 1
          IN  /\ enter_position(option_type, spot_price, contract, quote,
                                order, sl_order)
              /\ obs' = [NoObs EXCEPT
                           !.stage = "enter", !.spot = spot_price,
                           !.signal = option_type,
                           !.price = IF contract THEN quote ELSE NoQuote,
                           !.enter = EnterResult(contract, quote, order,
                                                 sl_order)]
    /\ UNCHANGED <<now, pc, Range, Config, waiting_for_breakout, total_pnl,
                   trade_completed, exit_signal, bo_log, Estimator>>

\* monitor_position(): returns None at once when no position is open
CallMonitor ==
    /\ pc = "top"
    /\ IF position = None
       THEN /\ obs' = [NoObs EXCEPT !.stage = "monitor"]
            /\ exit_signal' = "None"
            /\ UNCHANGED <<position, faults_left>>
       ELSE \E quote \in OptionQuotes(position) :
               IF quote = NoQuote
               THEN /\ obs' = [NoObs EXCEPT !.stage = "monitor"]
                    /\ exit_signal' = "None"
                    /\ UNCHANGED <<position, faults_left>>
               ELSE \E modify_ok \in ModifyResponses(position, quote) :
                    LET called == ModifyCalled(position, quote)
                        pos == AtExchange(Monitored(position, quote), called,
                                          modify_ok)
                        ret == MonitorRet(pos, quote)
                    IN  /\ position' = pos
                        /\ exit_signal' = ret
                        /\ obs' = [NoObs EXCEPT !.stage = "monitor",
                                                !.price = quote, !.ret = ret]
                        /\ faults_left' = IF called /\ ~modify_ok
                                          THEN faults_left - 1 ELSE faults_left
    /\ UNCHANGED <<now, pc, Range, Config, Counters, waiting_for_breakout,
                   bo_log, Estimator>>

\* exit_position(exit_reason): returns at once when no position is open
CallExit ==
    /\ pc = "top" /\ position # None
    /\ \E exit_reason \in {"STOP_LOSS", "MARKET_CLOSE"},
          quote \in ExitQuotes(position) :
          exit_position(exit_reason, quote, "top")
    /\ exit_signal' = "None"
    /\ UNCHANGED <<now, Range, Config, waiting_for_breakout, trade_count,
                   bo_log, Estimator, faults_left>>

NextCalls == CallEnter \/ CallMonitor \/ CallExit

SpecCalls == InitCalls /\ [][NextCalls]_vars

\* C17: a call of enter_position made while a position is open reports
\* failure and leaves the position and the session counters as they were.
C17_EntryRejectedWhenOpen ==
    [][(obs'.stage = "enter" /\ position # None)
       => /\ obs'.enter # "ok"
          /\ position' = position
          /\ UNCHANGED Counters]_vars

-----------------------------------------------------------------------------
(* Claims about the session counters, checked under Spec *)

\* The pnl exit_position computed in the step just taken
C18Pnl == ExitPriceUsed(obs') - position.entry_price

-----------------------------------------------------------------------------
(* Claims about the profit lock, checked under Spec *)

\* entry_price + PROFIT_LOCK_AMOUNT_RS / quantity to 2 decimals, in units
C19Floor(pos) ==
    Round2(pos.entry_price * pos.quantity + Rs(PROFIT_LOCK_AMOUNT_RS))

\* C19: in every state of an open position whose max_price has reached
\* (max_price - entry_price) x quantity >= PROFIT_LOCK_ACTIVATION_RS, the
\* stop_loss is at least entry_price + PROFIT_LOCK_AMOUNT_RS / quantity
\* rounded to 2 decimals.
C19_ProfitLockFloor ==
    (/\ position # None
     /\ (position.max_price - position.entry_price) * position.quantity
          >= Rs(PROFIT_LOCK_ACTIVATION_RS))
    => position.stop_loss >= C19Floor(position)

\* The lock was set by a peak of 10.77 above entry and a later, lower price
\* finds the stop exactly at the floor, 5.38 above entry
C19_Witness ==
    /\ Monitoring /\ position # None
    /\ position.max_price = position.entry_price + 1077
    /\ position.stop_loss = Units(position.entry_price + 538)
    /\ position.stop_loss = C19Floor(position)
    /\ obs.price = position.entry_price + 1000
    /\ obs.ret = "None"

-----------------------------------------------------------------------------
(* The volatility estimator (ATR) over resampled buckets [high, low, close]. *)
(* The estimate is the exact fraction num / den.                             *)

Max3(a, b, c) ==
    IF a >= b /\ a >= c THEN a ELSE IF b >= c THEN b ELSE c

\* True range of bucket i: high - low for the first bucket, otherwise
\* max(high - low, |high - prevClose|, |low - prevClose|)
TrueRange(bs, i) ==
    IF i = 1 THEN bs[i].high - bs[i].low
    ELSE Max3(bs[i].high - bs[i].low,
              Abs(bs[i].high - bs[i - 1].close),
              Abs(bs[i].low - bs[i - 1].close))

RECURSIVE SumTrueRange(_, _)
SumTrueRange(bs, n) ==
    IF n = 0 THEN 0 ELSE SumTrueRange(bs, n - 1) + TrueRange(bs, n)

\* Mutant: one bucket more than P + 1 is asked for
EnoughBuckets_strict(bs, P) == Len(bs) > P + 1

\* The estimator fails with fewer than P + 1 buckets
EnoughBuckets(bs, P) == Len(bs) >= P + 1

\* Wilder smoothing: the value after bucket i >= P is the mean of the first
\* P true ranges for i = P, and a + (tr[i] - a) / P over the previous value a
RECURSIVE Wilder(_, _, _)
Wilder(bs, P, i) ==
    IF i = P THEN [num |-> SumTrueRange(bs, P), den |-> P]
    ELSE LET a == Wilder(bs, P, i - 1)
         IN  [num |-> a.num * P + (TrueRange(bs, i) * a.den - a.num),
              den |-> a.den * P]

\* The last smoothed value, or unavailable
calculate_atr(bs, P) ==
    IF ~EnoughBuckets(bs, P)
    THEN [done |-> TRUE, ok |-> FALSE, num |-> 0, den |-> 1]
    ELSE LET a == Wilder(bs, P, Len(bs))
         IN  [done |-> TRUE, ok |-> TRUE, num |-> a.num, den |-> a.den]

\* Buckets: three whose true range is 5 after the one before them (the third
\* by its gap from the previous close), and a wide one
BucketShapes ==
    {[high |-> 105, low |-> 100, close |-> 103],
     [high |-> 108, low |-> 103, close |-> 105],
     [high |-> 110, low |-> 108, close |-> 109],
     [high |-> 120, low |-> 100, close |-> 110]}

\* Bucket series of 1 to MaxPeriod + 2 buckets
BucketInputs ==
    UNION {[1..n -> BucketShapes] : n \in 1..(MaxPeriod + 2)}

InitAtr ==
    /\ now = ORB_START_TIME - 1
    /\ pc = "top"
    /\ orb_formed = FALSE /\ orb_high = 0 /\ orb_low = 0
    /\ orb_buffer = ORB_BUFFER_POINTS
    /\ waiting_for_breakout = TRUE
    /\ position = None
    /\ trade_count = 0 /\ total_pnl = 0 /\ trade_completed = FALSE
    /\ max_trades = 1
    /\ max_daily_loss = Rs(MAX_DAILY_LOSS)
    /\ use_api = FALSE
    /\ exit_signal = "None"
    /\ obs = NoObs
    /\ bo_log = <<>> /\ faults_left = 0
    /\ buckets \in BucketInputs
    /\ atr_period \in 1..MaxPeriod
    /\ atr = NoAtr

\* One call of the estimator on the series
EstimateAtr ==
    /\ ~atr.done
    /\ atr' = calculate_atr(buckets, atr_period)
    /\ UNCHANGED <<now, pc, Range, Config, waiting_for_breakout, position,
                   Counters, exit_signal, obs, bo_log, faults_left, buckets,
                   atr_period>>

NextAtr == EstimateAtr

SpecAtr == InitAtr /\ [][NextAtr]_vars

\* The series has exactly P + 1 buckets, all of true range v
C20Constant(v) ==
    /\ Len(buckets) = atr_period + 1
    /\ \A i \in 1..Len(buckets) :
          LET b == buckets[i]
              hl == b.high - b.low
              hc == IF i = 1 THEN 0 ELSE Abs(b.high - buckets[i - 1].close)
              lc == IF i = 1 THEN 0 ELSE Abs(b.low - buckets[i - 1].close)
          IN  /\ hl <= v /\ hc <= v /\ lc <= v
              /\ v \in {hl, hc, lc}

\* C20: the estimate computed from exactly P + 1 buckets whose true range is
\* the same value v is available and equal to v (v over every true range the
\* bucket shapes can give).
C20_ConstantSeries ==
    \A v \in 0..20 :
        (atr.done /\ C20Constant(v)) => (atr.ok /\ atr.num = v * atr.den)

\* Period 3 and four buckets of true range 5, the last one by its gap from
\* the previous close
C20_Witness ==
    /\ atr.done /\ atr.ok /\ atr_period = 3 /\ C20Constant(5)
    /\ buckets[4].high - buckets[4].low = 2
    /\ atr.num = 5 * atr.den

-----------------------------------------------------------------------------
(* Claims about the tiers of monitor_position, checked under Spec *)

\* The step just taken is monitor_position on a quote
MonitorStep == StageStep("stage4") /\ obs'.price # NoQuote

\* maxPnl = (max_price - entry_price) x quantity, in paise
MaxPnlOf(pos) == (pos.max_price - pos.entry_price) * pos.quantity

\* C21: on an update that leaves maxPnl >= PROFIT_TARGET_RS the candidate
\* stop is entry_price + (maxPnl - TRAILING_STEP_RS) / quantity: it is
\* stored, rounded to 2 decimals, when it is above the old stop, and the stop
\* after the update is at least max_price - TRAILING_STEP_RS / quantity
\* rounded to 2 decimals.
C21_TrailingTier ==
    [][(MonitorStep /\ MaxPnlOf(position') >= Rs(PROFIT_TARGET_RS))
       => LET candidate == position'.entry_price * position'.quantity
                           + (MaxPnlOf(position') - Rs(TRAILING_STEP_RS))
          IN  /\ position'.stop_loss
                   = IF candidate > position.stop_loss
                     THEN Round2(candidate) ELSE position.stop_loss
              /\ position'.stop_loss
                   >= Round2(position'.max_price * position'.quantity
                             - Rs(TRAILING_STEP_RS))]_vars

\* The peak is 16.00 above entry, the stop trails it at 8.31 above entry and
\* a lower price does not move it
C21_Witness ==
    /\ Monitoring /\ position # None
    /\ position.max_price = position.entry_price + 1600
    /\ position.stop_loss = Units(position.entry_price + 831)
    /\ obs.price = position.entry_price + 1539
    /\ obs.ret = "None"

\* C22: on an update that leaves PROFIT_LOCK_ACTIVATION_RS <= maxPnl <
\* PROFIT_TARGET_RS the stop is entry_price + PROFIT_LOCK_AMOUNT_RS /
\* quantity (to 2 decimals) wherever max_price is in the band, and an update
\* that starts inside the band does not move the stop.
C22_LockTierFlat ==
    [][(/\ MonitorStep
        /\ MaxPnlOf(position') >= Rs(PROFIT_LOCK_ACTIVATION_RS)
        /\ MaxPnlOf(position') < Rs(PROFIT_TARGET_RS))
       => /\ position'.stop_loss
               = Round2(position'.entry_price * position'.quantity
                        + Rs(PROFIT_LOCK_AMOUNT_RS))
          /\ MaxPnlOf(position) >= Rs(PROFIT_LOCK_ACTIVATION_RS)
             => position'.stop_loss = position.stop_loss]_vars

\* A new peak 15.00 above entry, near the top of the band, and the stop is
\* 5.38 above entry
C22_Witness ==
    /\ Monitoring /\ position # None
    /\ position.max_price = position.entry_price + 1500
    /\ obs.price = position.max_price
    /\ position.stop_loss = Units(position.entry_price + 538)

\* C23: in every state of an open position whose maxPnl is below
\* PROFIT_LOCK_ACTIVATION_RS the stop_loss is the initial one,
\* entry_price - |INITIAL_STOP_LOSS_RS| / quantity.
C23_InitialStopKept ==
    (position # None /\ MaxPnlOf(position) < Rs(PROFIT_LOCK_ACTIVATION_RS))
    => position.stop_loss
         = position.entry_price * position.quantity
           - Rs(Abs(INITIAL_STOP_LOSS_RS))

\* A peak 10.76 above entry, one tick short of the activation
C23_Witness ==
    /\ Monitoring /\ position # None
    /\ position.max_price = position.entry_price + 1076
    /\ obs.price = position.max_price
    /\ position.stop_loss = InitialStop(position.entry_price)

\* C24: max_price starts at entry_price, every monitor_position call on a
\* quote sets it to the larger of its value and the price observed, and no
\* other step of an open position changes it; so it never decreases and is
\* the maximum of entry_price and the prices observed so far.
C24_HighWaterMark ==
    [][/\ EntryStep => position'.max_price = position'.entry_price
       /\ MonitorStep
          => position'.max_price
               = IF obs'.price > position.max_price
                 THEN obs'.price ELSE position.max_price
       /\ (position # None /\ position' # None)
          => /\ position'.max_price >= position.max_price
             /\ ~MonitorStep => position'.max_price = position.max_price]_vars

\* A price between the entry and an earlier peak leaves the peak
C24_Witness ==
    /\ Monitoring /\ position # None
    /\ position.max_price = position.entry_price + 1000
    /\ obs.price = position.entry_price + 500
    /\ position.stop_loss = InitialStop(position.entry_price)

-----------------------------------------------------------------------------
(* calculate_orb_levels called alone on candle lists that reach both edges of
   the window and the next day *)

\* Candles one minute before the window, at its start, in its last minute, at
\* its end, and at its start on the next day
OrbBars == {[ts |-> t, high |-> hl[1], low |-> hl[2]] :
               t \in {ORB_START_TIME - 1, ORB_START_TIME, ORB_END_TIME - 1,
                      ORB_END_TIME, MinutesPerDay + ORB_START_TIME},
               hl \in {<<24850, 24810>>, <<24840, 24800>>}}

OrbInputs == UNION {[1..n -> OrbBars] : n \in 0..MaxCandles}

InitOrb ==
    /\ now = ORB_END_TIME + 1
    /\ pc = "top"
    /\ orb_formed = FALSE /\ orb_high = 0 /\ orb_low = 0
    /\ orb_buffer = ORB_BUFFER_POINTS
    /\ waiting_for_breakout = TRUE
    /\ position = None
    /\ trade_count = 0 /\ total_pnl = 0 /\ trade_completed = FALSE
    /\ max_trades = 1
    /\ max_daily_loss = Rs(MAX_DAILY_LOSS)
    /\ use_api = TRUE
    /\ exit_signal = "None"
    /\ \E candles \in OrbInputs :
          obs = [NoObs EXCEPT !.stage = "candles", !.candles = candles]
    /\ bo_log = <<>> /\ faults_left = 0
    /\ NoEstimator

\* orb_data = calculate_orb_levels(candles), the result kept as stage 2 keeps it
CallOrbLevels ==
    /\ obs.stage = "candles"
    /\ LET orb_data == calculate_orb_levels(obs.candles)
       IN  IF orb_data.ok
           THEN /\ orb_high' = orb_data.high
                /\ orb_low' = orb_data.low
                /\ orb_formed' = TRUE
           ELSE UNCHANGED Range
    /\ obs' = [obs EXCEPT !.stage = "orb"]
    /\ UNCHANGED <<now, pc, Config, Counters, waiting_for_breakout, position,
                   exit_signal, bo_log, Estimator, faults_left>>

NextOrb == CallOrbLevels

SpecOrb == InitOrb /\ [][NextOrb]_vars

\* The date of the first candle, and the candles that start inside
\* [window start, window end) on that date
C25Date == obs.candles[1].ts \div MinutesPerDay

C25Included ==
    {i \in 1..Len(obs.candles) :
        /\ obs.candles[i].ts \div MinutesPerDay = C25Date
        /\ obs.candles[i].ts % MinutesPerDay >= ORB_START_TIME
        /\ obs.candles[i].ts % MinutesPerDay < ORB_END_TIME}

\* C25: calculate_orb_levels uses exactly the candles that start in
\* [9:15, 9:30) on the date of the first candle (one starting at 9:15 is
\* used, one starting at 9:30 is not): the high is the largest high and the
\* low the smallest low of those candles, and without such a candle there is
\* no result.
C25_HalfOpenWindow ==
    obs.stage = "orb"
    => IF C25Included = {}
       THEN ~orb_formed
       ELSE /\ orb_formed
            /\ \E i \in C25Included : obs.candles[i].high = orb_high
            /\ \A i \in C25Included : obs.candles[i].high <= orb_high
            /\ \E i \in C25Included : obs.candles[i].low = orb_low
            /\ \A i \in C25Included : obs.candles[i].low >= orb_low

\* A candle starting at 9:15 gives the range although candles with a higher
\* high start at 9:30 and at 9:15 of the next day
C25_Witness ==
    /\ obs.stage = "orb" /\ Len(obs.candles) = 3
    /\ obs.candles[1] = [ts |-> ORB_START_TIME, high |-> 24840, low |-> 24800]
    /\ obs.candles[2] = [ts |-> ORB_END_TIME, high |-> 24850, low |-> 24810]
    /\ obs.candles[3] = [ts |-> MinutesPerDay + ORB_START_TIME,
                         high |-> 24850, low |-> 24810]
    /\ orb_formed /\ orb_high = 24840 /\ orb_low = 24800

-----------------------------------------------------------------------------
(* Claims about the run loop before the range is formed, checked under Spec *)

\* The candles received by the stage-2 step just taken hold none that starts
\* in the window
C26NoneInWindow ==
    /\ StageStep("stage2") /\ obs'.candles # <<>>
    /\ \A i \in 1..Len(obs'.candles) :
          ~(/\ obs'.candles[i].ts >= ORB_START_TIME
            /\ obs'.candles[i].ts < ORB_END_TIME)

\* C26: a range calculation on candles none of which is in the window leaves
\* orb_formed false and orb_high and orb_low as constructed, and goes on to
\* the end of the iteration; while the range is unformed the iteration's end
\* returns to the top of the loop unless the market has closed, and the next
\* iteration after 9:30 calculates the range again.
C26_EmptyWindowRetried ==
    [][/\ C26NoneInWindow
          => /\ ~orb_formed' /\ orb_high' = 0 /\ orb_low' = 0
             /\ UNCHANGED <<Counters, position, waiting_for_breakout>>
             /\ pc' = "close_check"
       /\ (pc = "close_check" /\ ~orb_formed /\ now < MARKET_CLOSE)
          => (pc' = "top" /\ ~orb_formed')
       /\ (pc = "top" /\ ~orb_formed /\ now' > ORB_END_TIME)
          => obs'.stage = "stage2"]_vars

\* Back at the top of the loop at 9:31 after candles that missed the window
C26_Witness ==
    /\ pc = "top" /\ now = ORB_END_TIME + 1
    /\ obs.stage = "stage2" /\ obs.candles # <<>>
    /\ ~orb_formed /\ orb_high = 0 /\ orb_low = 0

-----------------------------------------------------------------------------
(* The run loop together with check_breakout called between its iterations
   while no range is formed, which the loop itself never does *)

\* Prices around the levels as constructed and around a range formed later
EarlyPrices == {0, 0 - ORB_BUFFER_POINTS - 1, ORB_BUFFER_POINTS + 5,
                24790 - ORB_BUFFER_POINTS - 1, 24820,
                24850 + ORB_BUFFER_POINTS + 5}

\* breakout = check_breakout(current_price), called before the range is formed
CallCheckBreakout(current_price) ==
    /\ pc = "top" /\ ~orb_formed
    /\ LET breakout == check_breakout(current_price)
       IN  /\ waiting_for_breakout' = breakout.waiting
           /\ obs' = [NoObs EXCEPT !.stage = "check",
                                   !.spot = current_price,
                                   !.signal = breakout.ret]
    /\ UNCHANGED <<now, pc, Range, Config, Counters, position, exit_signal,
                   bo_log, Estimator, faults_left>>

NextEarly ==
    \/ Next
    \/ \E current_price \in EarlyPrices : CallCheckBreakout(current_price)

SpecEarly == Init /\ [][NextEarly]_vars

\* C27: in a step that starts with no range formed, check_breakout returns
\* None whatever the price and the armed flag keeps its value, no signal is
\* emitted, enter_position is not called and no position is opened.
C27_NoSignalBeforeRange ==
    [][~orb_formed
       => /\ obs'.signal = "None"
          /\ waiting_for_breakout' = waiting_for_breakout
          /\ obs'.enter = "not_called"
          /\ position' = None /\ trade_count' = 0]_vars

\* check_breakout was called with a price above the buffer of the levels as
\* constructed and returned None
C27_Witness ==
    /\ ~orb_formed /\ obs.stage = "check"
    /\ obs.spot = ORB_BUFFER_POINTS + 5 /\ obs.signal = "None"
    /\ waiting_for_breakout /\ position = None

-----------------------------------------------------------------------------
(* Claims about the loop after a signal, checked under Spec *)

\* The step just taken is stage 3 observing a price inside [orb_low, orb_high]
C28Rearming ==
    StageStep("stage3") /\ obs'.spot # NoQuote /\ Inside(obs'.spot)

\* C28: a stage-3 step that emits a signal leaves the detector disarmed
\* whether enter_position succeeds or fails; from a disarmed detector every
\* iteration other than a stage-3 observation of a price inside
\* [orb_low, orb_high] emits no signal, does not call enter_position and
\* leaves the detector disarmed, and so does the rest of an iteration.
C28_FailedEntryConsumesSignal ==
    [][/\ (StageStep("stage3") /\ obs'.signal # "None")
          => ~waiting_for_breakout'
       /\ (pc = "top" /\ ~waiting_for_breakout /\ ~C28Rearming)
          => /\ obs'.signal = "None"
             /\ obs'.enter = "not_called"
             /\ ~waiting_for_breakout'
       /\ (pc # "top" /\ ~waiting_for_breakout)
          => (~waiting_for_breakout' /\ trade_count' = trade_count)]_vars

\* No trade was ever opened, so the signal that disarmed the detector was
\* followed by a failed entry; a later price beyond the trigger gives nothing
C28_Witness ==
    /\ orb_formed /\ obs.stage = "stage3"
    /\ obs.spot = orb_high + orb_buffer + 5 /\ obs.signal = "None"
    /\ ~waiting_for_breakout /\ trade_count = 0 /\ position = None

\* C29: an exit that leaves trade_count >= max_trades or total_pnl <=
\* -max_daily_loss ends the process in that step, and once the process has
\* ended no stage of the loop runs: nothing is observed, evaluated, entered or
\* monitored any more.
C29_LimitsHaltTheLoop ==
    /\ [][(ExitStep /\ (\/ trade_count' >= max_trades
                        \/ total_pnl' <= 0 - max_daily_loss))
          => pc' = "halted"]_vars
    /\ [][pc = "halted"
          => /\ pc' = "halted" /\ obs' = obs /\ position' = None
             /\ UNCHANGED <<waiting_for_breakout, Counters>>]_vars
    /\ []((position = None /\ trade_count >= max_trades) => pc = "halted")

\* Ended by the trade limit after a stop-loss exit that booked a profit
C29_Witness ==
    /\ pc = "halted" /\ obs.stage = "STOP_LOSS" /\ position = None
    /\ trade_count = max_trades /\ total_pnl > 0

-----------------------------------------------------------------------------
(* Duplicate timestamps in the candles of stage 2, checked under Spec *)

\* The candles that are the last of their timestamp in the latest range
\* calculation, and those of them in the window on the date of the first
C30Kept ==
    {i \in 1..Len(obs.candles) :
        \A j \in (i + 1)..Len(obs.candles) :
            obs.candles[j].ts # obs.candles[i].ts}

C30Included ==
    LET first == SetMin(C30Kept)
        current_date == obs.candles[first].ts \div MinutesPerDay
    IN  {i \in C30Kept :
            /\ obs.candles[i].ts >= current_date * MinutesPerDay + ORB_START_TIME
            /\ obs.candles[i].ts < current_date * MinutesPerDay + ORB_END_TIME}

\* C30: the range calculated from candles with duplicate timestamps is the
\* range of the candles that are the last of their timestamp: the largest
\* high and the smallest low of those in the window, or no range when none of
\* them is in the window.
C30_DuplicatesLastWins ==
    (obs.stage = "stage2" /\ obs.candles # <<>>)
    => IF C30Included = {}
       THEN ~orb_formed
       ELSE /\ orb_formed
            /\ orb_high = SetMax({obs.candles[i].high : i \in C30Included})
            /\ orb_low = SetMin({obs.candles[i].low : i \in C30Included})

-----------------------------------------------------------------------------
(* Claims about failed entries, checked under SpecErr *)

\* C31: a call of enter_position that returns False (no contract, no quote,
\* zero price, a rejected entry or stop order, or an exception) leaves
\* position None and trade_count and total_pnl unchanged.
C31_FailedEntryLeavesNothing ==
    [][(StageStep("stage3") /\ obs'.enter \notin {"not_called", "ok"})
       => /\ position' = None
          /\ trade_count' = trade_count
          /\ total_pnl' = total_pnl]_vars

-----------------------------------------------------------------------------
(* Claims about the stop and the prices of a position, checked under Spec *)

\* C32: in every state of an open position stop_loss is strictly below
\* max_price, and a monitor_position call whose price is a new max_price
\* does not return STOP_LOSS.
C32_StopBelowPeak ==
    /\ [](position # None
          => position.stop_loss < position.max_price * position.quantity)
    /\ [][(MonitorStep /\ obs'.price > position.max_price)
          => (obs'.ret = "None" /\ exit_signal' = "None")]_vars

\* A new peak 16.00 above entry: the stop rises to 8.31 above entry, below
\* the price, and nothing is returned
C32_Witness ==
    /\ Monitoring /\ position # None
    /\ obs.price = position.entry_price + 1600
    /\ position.max_price = obs.price
    /\ position.stop_loss = Units(position.entry_price + 831)
    /\ obs.ret = "None"

-----------------------------------------------------------------------------
(* Claims about the end of the session, checked under Spec *)

\* C33: no position is opened in an iteration whose current_time is at or
\* after 15:15, the time at which the market-close check of that iteration
\* fires.
C33_NoEntryAtClose ==
    [][(StageStep("stage3") /\ position' # None) => now' < MARKET_CLOSE]_vars

\* The loop has left its body: by the break of the close check, or by the
\* sys.exit of exit_position
Terminated == pc \in {"done", "halted"}

\* C34: once an iteration has read a current_time at or after 15:15 the loop
\* terminates; the market-close check of such an iteration ends the loop in
\* its step with no position left, whatever the final quote, and whenever
\* the loop has ended through the break no position is open.
C34_ClosesAtMarketClose ==
    /\ (now >= MARKET_CLOSE) ~> Terminated
    /\ [][(pc = "close_check" /\ now >= MARKET_CLOSE)
          => (Terminated' /\ position' = None)]_vars
    /\ [](pc = "done" => (position = None /\ now >= MARKET_CLOSE))

\* The loop ended at the close by exiting a position without a final quote
C34_Witness ==
    /\ pc = "done" /\ now >= MARKET_CLOSE
    /\ obs.stage = "MARKET_CLOSE" /\ obs.price = NoQuote
    /\ position = None /\ trade_count = 1

-----------------------------------------------------------------------------
(* Claims about quotes without a last price and unavailable quotes, checked
   under Spec *)

\* C35: a quote without last_price, read as the price 0, is not treated as an
\* observation: in stage 3 it gives no signal and leaves the armed flag, and
\* in monitor_position it does not give STOP_LOSS.
C35_ZeroPriceIgnored ==
    [][/\ (StageStep("stage3") /\ obs'.spot = 0)
          => /\ obs'.signal = "None"
             /\ waiting_for_breakout' = waiting_for_breakout
       /\ (StageStep("stage4") /\ obs'.price = 0)
          => (obs'.ret = "None" /\ exit_signal' = "None")]_vars

\* C36: the pnl added to total_pnl by an exit comes from an observed exit
\* price: an exit whose quote is unavailable does not change total_pnl by a
\* pnl computed from the substituted exit price 0.
C36_NoPnlFromSubstitutedPrice ==
    [][(ExitStep /\ obs'.price = NoQuote)
       => total_pnl' # total_pnl + (0 - position.entry_price)]_vars

\* C37: on a STOP_LOSS exit the exit price of the booked pnl is the price
\* that made monitor_position return STOP_LOSS, and so it is at or below the
\* stop_loss that was hit.
C37_ExitAtTriggeringPrice ==
    [][(pc = "exit" /\ exit_signal = "STOP_LOSS")
       => /\ obs'.price = obs.price
          /\ ExitPriceUsed(obs') * position.quantity <= position.stop_loss
          /\ total_pnl' = total_pnl + (obs.price - position.entry_price)]_vars

-----------------------------------------------------------------------------
(* The detector while a position is open, checked under Spec *)

\* C38: in a step that starts with a position open the armed flag and the
\* range keep their values, and an iteration that starts with a position
\* open runs stage 4: no index quote is read and check_breakout is not
\* called, so no signal is emitted.
C38_DetectorIdleWhileOpen ==
    [][position # None
       => /\ waiting_for_breakout' = waiting_for_breakout
          /\ UNCHANGED Range
          /\ pc = "top"
             => /\ obs'.stage = "stage4"
                /\ obs'.spot = NoQuote /\ obs'.signal = "None"]_vars

\* A second iteration of stage 4 on a position opened by a signal: the
\* detector is still disarmed as the signal left it
C38_Witness ==
    /\ position # None /\ pc = "top" /\ obs.stage = "stage4"
    /\ obs.price = position.entry_price + 500
    /\ position.max_price = position.entry_price + 1000
    /\ ~waiting_for_breakout /\ orb_formed

-----------------------------------------------------------------------------
(* The stop order at the exchange *)

\* C39: in live or sandbox execution the trigger price of the stop order at
\* the exchange always equals the local stop_loss of the open position, and a
\* local STOP_LOSS exit, which places no sell order, closes only a position
\* whose stop order at the exchange carries the stop that was hit
C39_ExchangeStopFollowsLocal ==
    /\ []((use_api /\ position # None)
            => position.sl_trigger = position.stop_loss)
    /\ [][(pc = "exit" /\ exit_signal = "STOP_LOSS" /\ use_api)
            => (position.sl_trigger = position.stop_loss
                /\ position' = None)]_vars
====
